---- MODULE Spec2Model ----
(***************************************************************************)
(* A model of the gcdn crate (src/src/lib.rs, src/src/util.rs): binary GCD *)
(* and LCM of 2, 3, 4 and N integers.  The integer types are the 8-bit     *)
(* pair i8/u8 (UAbs<u8> for i8 and UAbs<u8> for u8): a value of the input  *)
(* type T is an integer in -128..127 (signed) or 0..255 (unsigned), a      *)
(* value of the working type U an integer in 0..255.  Arithmetic that the  *)
(* code writes with the plain operators (-, *, /) records a fault when it  *)
(* leaves the type (a panic of a debug build) and goes on with the wrapped *)
(* value (a release build); the wrapping_* calls only wrap.                *)
(***************************************************************************)
EXTENDS Integers, Sequences, FiniteSets

\* ------------------------------------------------------------------ bounds
\* Inputs are drawn from -m..m (signed) or 0..m (unsigned) plus the extreme
\* values of the type: m is MaxArg2 for gcd2 and lcm2, MaxArg3 for gcd3,
\* MaxArg4 for gcd4, MaxFold for lcm3 and lcm4, MaxElem for the elements of
\* gcdn's slice, whose length is at most MaxLen.
MaxArg2 == 17
MaxArg3 == 9
MaxArg4 == 4
MaxFold == 3
MaxLen == 3
MaxElem == 5

\* ------------------------------------------------------- the integer types
\* Bit width of i8 / u8.
W == 8

Pow2(n) == 2 ^ n

Modulus == Pow2(W)

\* U::max_value()
MaxValue == Modulus - 1

\* i8::MIN and i8::MAX
MinT == 0 - Pow2(W - 1)
MaxT == Pow2(W - 1) - 1

\* `x as u8`: the bit pattern of a value.
AsUnsigned(x) == x % Modulus

\* `x as i8`: the two's-complement reading of a bit pattern.
AsSigned(x) == IF x % Modulus >= Pow2(W - 1) THEN (x % Modulus) - Modulus ELSE x % Modulus

\* A bit pattern read as a value of T.
AsT(sg, x) == IF sg THEN AsSigned(x) ELSE AsUnsigned(x)

\* The bitwise operators, bit by bit from the lowest (functions, so that an
\* argument is evaluated once, before it is used).
AndBits[x \in Nat, y \in Nat] ==
    IF x = 0 \/ y = 0 THEN 0
    ELSE (x % 2) * (y % 2) + 2 * AndBits[x \div 2, y \div 2]

OrBits[x \in Nat, y \in Nat] ==
    IF x = 0 THEN y
    ELSE IF y = 0 THEN x
    ELSE (IF x % 2 = 1 \/ y % 2 = 1 THEN 1 ELSE 0) + 2 * OrBits[x \div 2, y \div 2]

XorBits[x \in Nat, y \in Nat] ==
    IF x = 0 THEN y
    ELSE IF y = 0 THEN x
    ELSE ((x + y) % 2) + 2 * XorBits[x \div 2, y \div 2]

BitAnd(x, y) == AndBits[x, y]
BitOr(x, y) == OrBits[x, y]
BitXor(x, y) == XorBits[x, y]
BitNot(x) == MaxValue - x

\* Plain U arithmetic: the wrapped value, and whether it left the type.
SubOvf(x, y) == x < y
MulOvf(x, y) == x * y > MaxValue
wrapping_sub(x, y) == (x - y) % Modulus
wrapping_mul(x, y) == (x * y) % Modulus

ZeroBits[x \in Nat] ==
    IF x = 0 THEN W
    ELSE IF x % 2 = 1 THEN 0
    ELSE 1 + ZeroBits[x \div 2]

trailing_zeros(x) == ZeroBits[x]

\* The shift amount is taken modulo the width.
wrapping_shr(x, n) == x \div Pow2(n % W)

\* ------------------------------------------------------------ util.rs
max(x, y) == IF y > x THEN y ELSE x
min(x, y) == IF y < x THEN y ELSE x

min2(x, y) == min(x, y)
min3(x, y, z) == min(min(x, y), z)
min4(x, y, z, t) == min(min(x, y), min(z, t))
\* (a faulty variant: the minimum, as gcd2 takes it)
max2_as_min(x, y) == min(x, y)
max2(x, y) == max(x, y)
max3(x, y, z) == max(max(x, y), z)

\* (a function, so that each argument is evaluated once)
Sorted2[x \in Int, y \in Int] == <<max(x, y), min(x, y)>>

\* (a faulty variant: the pair left as it came)
sort2_unsorted(x, y) == <<x, y>>
sort2(x, y) == Sorted2[x, y]

Sorted3[x \in Int, y \in Int, z \in Int] ==
    LET mx == max3(x, y, z)
        mn == min3(x, y, z)
    IN  <<mx, BitXor(BitXor(BitXor(BitXor(x, y), z), mn), mx), mn>>

sort3(x, y, z) == Sorted3[x, y, z]

Sorted4[x \in Int, y \in Int, z \in Int, t \in Int] ==
    LET p1 == sort2(x, y)
        p2 == sort2(z, t)
        p3 == sort2(p1[1], p2[1])
        p4 == sort2(p1[2], p2[2])
        p5 == sort2(p4[1], p3[2])
    IN  <<p3[1], p5[1], p5[2], p4[2]>>

sort4(x, y, z, t) == Sorted4[x, y, z, t]

unpot(x) == wrapping_shr(x, trailing_zeros(x))

expot(x) == IF x = 0 THEN MaxValue ELSE BitAnd(x, BitNot(wrapping_sub(x, 1)))

\* (a faulty variant: the sign kept)
wrapping_abs_none(x) == x
\* i8::wrapping_abs: the minimum wraps to itself.
wrapping_abs(x) == IF x < 0 THEN AsSigned(0 - x) ELSE x

uabs(sg, x) == IF sg THEN AsUnsigned(wrapping_abs(x)) ELSE x

iabs(sg, u) == IF sg THEN AsSigned(u) ELSE u

\* The first fault of a call: "overflow" where a plain -, * leaves the type,
\* "div_by_zero" where / divides by zero; "none" while there was none.
Fault(f, cond, kind) == IF f = "none" /\ cond THEN kind ELSE f

\* ------------------------------------------------------------ lib.rs: gcd2
\* lines 26-29: absolute values, shared scale, odd parts in descending order.
Gcd2Start(sg, x, y) ==
    LET ua == uabs(sg, x)
        ub == uabs(sg, y)
        srt == sort2(unpot(ua), unpot(ub))
    IN  [a |-> srt[1], b |-> srt[2], s |-> min2(expot(ua), expot(ub))]

\* (a faulty variant: the subtraction left out)
Gcd2PassNoSub(x, y) == sort2(unpot(x), y)
\* line 31: one pass of `while b > 1`.
Gcd2Pass(x, y) == sort2(unpot(wrapping_sub(x, y)), y)

\* (a faulty variant: the value not pinned to 1)
Gcd2PinNone(x, y) == x
\* lines 33-35: the surviving value.
Gcd2Pin(x, y) == IF y = 1 THEN 1 ELSE x

RECURSIVE Gcd2While(_, _)
Gcd2While(x, y) ==
    IF y > 1 THEN LET n == Gcd2Pass(x, y) IN Gcd2While(n[1], n[2]) ELSE <<x, y>>

\* The value gcd2 returns (a release build's: products wrap).
gcd2(sg, x, y) ==
    LET st == Gcd2Start(sg, x, y)
        fin == Gcd2While(st.a, st.b)
    IN  wrapping_mul(Gcd2Pin(fin[1], fin[2]), st.s)

\* ------------------------------------------------------------ lib.rs: gcd3
Gcd3Start(sg, x, y, z) ==
    LET ua == uabs(sg, x)
        ub == uabs(sg, y)
        uc == uabs(sg, z)
        srt == sort3(unpot(ua), unpot(ub), unpot(uc))
    IN  [a |-> srt[1], b |-> srt[2], c |-> srt[3],
         s |-> min3(expot(ua), expot(ub), expot(uc))]

\* line 51: one pass of `while c > 1`.
Gcd3Pass(x, y, z) == sort3(unpot(wrapping_sub(x, y)), unpot(wrapping_sub(y, z)), z)

\* ------------------------------------------------------------ lib.rs: gcd4
Gcd4Start(sg, x, y, z, t) ==
    LET ua == uabs(sg, x)
        ub == uabs(sg, y)
        uc == uabs(sg, z)
        ud == uabs(sg, t)
        srt == sort4(unpot(ua), unpot(ub), unpot(uc), unpot(ud))
    IN  [a |-> srt[1], b |-> srt[2], c |-> srt[3], d |-> srt[4],
         s |-> min4(expot(ua), expot(ub), expot(uc), expot(ud))]

\* line 78: one pass of `while d > 1`.
Gcd4Pass(x, y, z, t) ==
    sort4(unpot(wrapping_sub(x, y)), unpot(wrapping_sub(y, z)),
          unpot(wrapping_sub(z, t)), t)

\* ------------------------------------------------------------ lib.rs: gcdn
\* T::wrapping_sub, T::trailing_zeros and T::wrapping_shr (arithmetic for i8).
wrapping_sub_T(sg, x, y) == AsT(sg, x - y)
trailing_zeros_T(x) == trailing_zeros(AsUnsigned(x))
wrapping_shr_T(sg, x, n) == IF sg THEN AsSigned(x) \div Pow2(n % W) ELSE wrapping_shr(x, n)

\* The loops over the slice are functions of the slice, so that the slice is
\* evaluated once per step.
\* lines 110-118: the bitwise or of all elements, as a value of T.
OrFrom[v \in Seq(Int), i \in Nat, acc \in Nat] ==
    IF i > Len(v) THEN acc ELSE OrFrom[v, i + 1, BitOr(acc, AsUnsigned(v[i]))]

OrAll(sg, v) == AsT(sg, OrFrom[v, 1, AsUnsigned(v[1])])

\* line 121: *x = iabs(unpot(uabs(*x)))
Stripped(sg, x) == iabs(sg, unpot(uabs(sg, x)))

\* lines 120-127: strip the elements in order; stop at the first that becomes 1.
StripFrom[sg \in BOOLEAN, v \in Seq(Int), i \in Nat] ==
    IF i > Len(v) THEN [ret |-> FALSE, vec |-> v]
    ELSE IF Stripped(sg, v[i]) = 1
         THEN [ret |-> TRUE, vec |-> [v EXCEPT ![i] = 1]]
         ELSE StripFrom[sg, [v EXCEPT ![i] = Stripped(sg, v[i])], i + 1]

Strip(sg, v) == StripFrom[sg, v, 1]

\* line 129: vec.sort_by(|a, b| b.cmp(a)), descending in T's order.
InsertDesc[x \in Int, v \in Seq(Int)] ==
    IF v = <<>> THEN <<x>>
    ELSE IF x >= Head(v) THEN <<x>> \o v
    ELSE <<Head(v)>> \o InsertDesc[x, Tail(v)]

SortedDesc[v \in Seq(Int)] ==
    IF v = <<>> THEN <<>> ELSE InsertDesc[Head(v), SortedDesc[Tail(v)]]

SortDesc(v) == SortedDesc[v]

\* lines 136-137: vec[prev].wrapping_sub(&x), shifted right by its trailing zeros.
Reduced(sg, p, x) ==
    wrapping_shr_T(sg, wrapping_sub_T(sg, p, x), trailing_zeros_T(wrapping_sub_T(sg, p, x)))

\* The return at line 134.
SweepReturn(sg, v, sc, i) ==
    [ret |-> TRUE, vec |-> v,
     value |-> wrapping_mul(uabs(sg, v[i - 1]), sc),
     ovf |-> MulOvf(uabs(sg, v[i - 1]), sc)]

\* lines 131-140: the sweep from index i (1-based here), prev being i - 1.
SweepFrom[sg \in BOOLEAN, v \in Seq(Int), sc \in Nat, i \in Nat] ==
    IF i > Len(v) THEN [ret |-> FALSE, vec |-> v, value |-> 0, ovf |-> FALSE]
    ELSE IF v[i] = 0 THEN SweepReturn(sg, v, sc, i)
    ELSE SweepFrom[sg, [v EXCEPT ![i - 1] = Reduced(sg, v[i - 1], v[i])], sc, i + 1]

Sweep(sg, v, sc) == SweepFrom[sg, v, sc, 2]

\* lines 129-141: one pass of `loop`: sort, then sweep.
GcdnPass(sg, v, sc) == Sweep(sg, SortDesc(v), sc)

\* lines 104-127: everything before `loop`.
GcdnStart(sg, v) ==
    IF Len(v) = 0 THEN [ret |-> TRUE, value |-> 1, vec |-> v, s |-> 0]
    ELSE IF Len(v) = 1 THEN [ret |-> TRUE, value |-> uabs(sg, v[1]), vec |-> v, s |-> 0]
    ELSE IF \E i \in 1..Len(v) : v[i] = 1
         THEN [ret |-> TRUE, value |-> 1, vec |-> v, s |-> 0]
    ELSE [ret |-> Strip(sg, v).ret, value |-> expot(uabs(sg, OrAll(sg, v))),
          vec |-> Strip(sg, v).vec, s |-> expot(uabs(sg, OrAll(sg, v)))]

RECURSIVE GcdnLoop(_, _, _)
GcdnLoop(sg, v, sc) ==
    LET p == GcdnPass(sg, v, sc) IN IF p.ret THEN p.value ELSE GcdnLoop(sg, p.vec, sc)

\* The value gcdn returns.
gcdn(sg, v) ==
    LET st == GcdnStart(sg, v) IN IF st.ret THEN st.value ELSE GcdnLoop(sg, st.vec, st.s)

\* ------------------------------------------------------------ lib.rs: lcm2
\* lines 150-154.
Lcm2Start(sg, x, y) ==
    LET ua == uabs(sg, x)
        ub == uabs(sg, y)
        sc == max2(expot(ua), expot(ub))
        srt == sort2(unpot(ua), unpot(ub))
    IN  [a |-> srt[1], b |-> srt[2], s |-> sc,
         lcm |-> wrapping_mul(wrapping_mul(srt[1], srt[2]), sc),
         ovf |-> MulOvf(srt[1], srt[2]) \/ MulOvf(wrapping_mul(srt[1], srt[2]), sc)]

\* line 156: one pass of `while b > 1`.
Lcm2Pass(x, y) == sort2(unpot(wrapping_sub(x, y)), y)

\* (a faulty variant: the test a <= 1 left out)
Lcm2KeepCoprime(x, y) == y = 1
\* line 158: whether the raw product is returned undivided.
Lcm2Keep(x, y) == y = 1 \/ x <= 1

\* lines 158-162: the value returned (0 stands for the quotient of a division by 0).
Lcm2Value(x, y, l) == IF Lcm2Keep(x, y) THEN l ELSE IF x = 0 THEN 0 ELSE l \div x

Lcm2DivZero(x, y) == ~Lcm2Keep(x, y) /\ x = 0

RECURSIVE Lcm2While(_, _)
Lcm2While(x, y) ==
    IF y > 1 THEN LET n == Lcm2Pass(x, y) IN Lcm2While(n[1], n[2]) ELSE <<x, y>>

\* The value lcm2 returns.
lcm2(sg, x, y) ==
    LET st == Lcm2Start(sg, x, y)
        fin == Lcm2While(st.a, st.b)
    IN  Lcm2Value(fin[1], fin[2], st.lcm)

\* ------------------------------------------------------------ the calls
\* One call of one function: fn is the function, signed whether T is i8 (else
\* u8), args its arguments (for gcdn the slice as passed in, for expot one
\* value of u8).  pc is the place in the function, a..d, s, lcm its locals,
\* vec the slice gcdn works on, cur/k the lcm2 call lcm3 or lcm4 is in (its
\* arguments, and how many of args are consumed), result the value returned,
\* fault the first arithmetic fault, passes the loop passes made so far.
VARIABLES fn, signed, args, pc, a, b, c, d, s, lcm, vec, cur, k, result, fault, passes

vars == <<fn, signed, args, pc, a, b, c, d, s, lcm, vec, cur, k, result, fault, passes>>

\* The values of T inputs are drawn from.
Dom(sg, m) ==
    IF sg THEN ((0 - m)..m) \cup {MinT, MaxT} ELSE (0..m) \cup {Pow2(W - 1), MaxValue}

Tuples(D, n) == [1..n -> D]

Inputs(f, sg) ==
    CASE f \in {"gcd2", "lcm2"} -> Tuples(Dom(sg, MaxArg2), 2)
      [] f = "gcd3" -> Tuples(Dom(sg, MaxArg3), 3)
      [] f = "gcd4" -> Tuples(Dom(sg, MaxArg4), 4)
      [] f = "lcm3" -> Tuples(Dom(sg, MaxFold), 3)
      [] f = "lcm4" -> Tuples(Dom(sg, MaxFold), 4)
      [] f = "gcdn" -> UNION {Tuples(Dom(sg, MaxElem), n) : n \in 0..MaxLen}
      [] f = "expot" -> IF sg THEN {} ELSE Tuples(0..MaxValue, 1)

Functions == {"gcd2", "gcd3", "gcd4", "gcdn", "lcm2", "lcm3", "lcm4", "expot"}

Init ==
    /\ fn \in Functions
    /\ signed \in BOOLEAN
    /\ args \in Inputs(fn, signed)
    /\ pc = "call"
    /\ a = 0 /\ b = 0 /\ c = 0 /\ d = 0 /\ s = 0 /\ lcm = 0
    /\ vec = IF fn = "gcdn" THEN args ELSE <<>>
    /\ cur = IF fn \in {"lcm2", "lcm3", "lcm4"} THEN <<args[1], args[2]>> ELSE <<>>
    /\ k = IF fn \in {"lcm2", "lcm3", "lcm4"} THEN 2 ELSE 0
    /\ result = 0
    /\ fault = "none"
    /\ passes = 0

Frame == UNCHANGED <<fn, signed, args>>

\* ---- gcd2
Gcd2Enter ==
    /\ fn = "gcd2" /\ pc = "call"
    /\ \E st \in {Gcd2Start(signed, args[1], args[2])} :
           a' = st.a /\ b' = st.b /\ s' = st.s
    /\ pc' = "while_b"
    /\ Frame /\ UNCHANGED <<c, d, lcm, vec, cur, k, result, fault, passes>>

Gcd2Loop ==
    /\ fn = "gcd2" /\ pc = "while_b" /\ b > 1
    /\ \E n \in {Gcd2Pass(a, b)} : a' = n[1] /\ b' = n[2]
    /\ fault' = Fault(fault, SubOvf(a, b), "overflow")
    /\ passes' = passes + 1
    /\ Frame /\ UNCHANGED <<pc, c, d, s, lcm, vec, cur, k, result>>

Gcd2Exit ==
    /\ fn = "gcd2" /\ pc = "while_b" /\ ~(b > 1)
    /\ a' = Gcd2Pin(a, b)
    /\ result' = wrapping_mul(a', s)
    /\ fault' = Fault(fault, MulOvf(a', s), "overflow")
    /\ pc' = "done"
    /\ Frame /\ UNCHANGED <<b, c, d, s, lcm, vec, cur, k, passes>>

\* ---- gcd3
Gcd3Enter ==
    /\ fn = "gcd3" /\ pc = "call"
    /\ \E st \in {Gcd3Start(signed, args[1], args[2], args[3])} :
           a' = st.a /\ b' = st.b /\ c' = st.c /\ s' = st.s
    /\ pc' = "while_c"
    /\ Frame /\ UNCHANGED <<d, lcm, vec, cur, k, result, fault, passes>>

\* lines 50-52
Gcd3LoopC ==
    /\ fn = "gcd3" /\ pc = "while_c" /\ c > 1
    /\ \E n \in {Gcd3Pass(a, b, c)} : a' = n[1] /\ b' = n[2] /\ c' = n[3]
    /\ fault' = Fault(fault, SubOvf(a, b) \/ SubOvf(b, c), "overflow")
    /\ passes' = passes + 1
    /\ Frame /\ UNCHANGED <<pc, d, s, lcm, vec, cur, k, result>>

\* lines 53-55
Gcd3PinB ==
    /\ fn = "gcd3" /\ pc = "while_c" /\ ~(c > 1)
    /\ b' = Gcd2Pin(b, c)
    /\ pc' = "while_b"
    /\ Frame /\ UNCHANGED <<a, c, d, s, lcm, vec, cur, k, result, fault, passes>>

\* lines 56-58
Gcd3LoopB ==
    /\ fn = "gcd3" /\ pc = "while_b" /\ b > 1
    /\ \E n \in {Gcd2Pass(a, b)} : a' = n[1] /\ b' = n[2]
    /\ fault' = Fault(fault, SubOvf(a, b), "overflow")
    /\ passes' = passes + 1
    /\ Frame /\ UNCHANGED <<pc, c, d, s, lcm, vec, cur, k, result>>

\* lines 59-62
Gcd3Exit ==
    /\ fn = "gcd3" /\ pc = "while_b" /\ ~(b > 1)
    /\ a' = Gcd2Pin(a, b)
    /\ result' = wrapping_mul(a', s)
    /\ fault' = Fault(fault, MulOvf(a', s), "overflow")
    /\ pc' = "done"
    /\ Frame /\ UNCHANGED <<b, c, d, s, lcm, vec, cur, k, passes>>

\* ---- gcd4
Gcd4Enter ==
    /\ fn = "gcd4" /\ pc = "call"
    /\ \E st \in {Gcd4Start(signed, args[1], args[2], args[3], args[4])} :
           a' = st.a /\ b' = st.b /\ c' = st.c /\ d' = st.d /\ s' = st.s
    /\ pc' = "while_d"
    /\ Frame /\ UNCHANGED <<lcm, vec, cur, k, result, fault, passes>>

\* lines 77-79
Gcd4LoopD ==
    /\ fn = "gcd4" /\ pc = "while_d" /\ d > 1
    /\ \E n \in {Gcd4Pass(a, b, c, d)} : a' = n[1] /\ b' = n[2] /\ c' = n[3] /\ d' = n[4]
    /\ fault' = Fault(fault, SubOvf(a, b) \/ SubOvf(b, c) \/ SubOvf(c, d), "overflow")
    /\ passes' = passes + 1
    /\ Frame /\ UNCHANGED <<pc, s, lcm, vec, cur, k, result>>

\* lines 80-82
Gcd4PinC ==
    /\ fn = "gcd4" /\ pc = "while_d" /\ ~(d > 1)
    /\ c' = Gcd2Pin(c, d)
    /\ pc' = "while_c"
    /\ Frame /\ UNCHANGED <<a, b, d, s, lcm, vec, cur, k, result, fault, passes>>

\* lines 83-85
Gcd4LoopC ==
    /\ fn = "gcd4" /\ pc = "while_c" /\ c > 1
    /\ \E n \in {Gcd3Pass(a, b, c)} : a' = n[1] /\ b' = n[2] /\ c' = n[3]
    /\ fault' = Fault(fault, SubOvf(a, b) \/ SubOvf(b, c), "overflow")
    /\ passes' = passes + 1
    /\ Frame /\ UNCHANGED <<pc, d, s, lcm, vec, cur, k, result>>

\* lines 86-88
Gcd4PinB ==
    /\ fn = "gcd4" /\ pc = "while_c" /\ ~(c > 1)
    /\ b' = Gcd2Pin(b, c)
    /\ pc' = "while_b"
    /\ Frame /\ UNCHANGED <<a, c, d, s, lcm, vec, cur, k, result, fault, passes>>

\* lines 89-91
Gcd4LoopB ==
    /\ fn = "gcd4" /\ pc = "while_b" /\ b > 1
    /\ \E n \in {Gcd2Pass(a, b)} : a' = n[1] /\ b' = n[2]
    /\ fault' = Fault(fault, SubOvf(a, b), "overflow")
    /\ passes' = passes + 1
    /\ Frame /\ UNCHANGED <<pc, c, d, s, lcm, vec, cur, k, result>>

\* lines 92-95
Gcd4Exit ==
    /\ fn = "gcd4" /\ pc = "while_b" /\ ~(b > 1)
    /\ a' = Gcd2Pin(a, b)
    /\ result' = wrapping_mul(a', s)
    /\ fault' = Fault(fault, MulOvf(a', s), "overflow")
    /\ pc' = "done"
    /\ Frame /\ UNCHANGED <<b, c, d, s, lcm, vec, cur, k, passes>>

\* ---- gcdn
\* lines 104-127: returns at once, or enters `loop`.
GcdnEnter ==
    /\ fn = "gcdn" /\ pc = "call"
    /\ \E st \in {GcdnStart(signed, vec)} :
           /\ vec' = st.vec
           /\ s' = st.s
           /\ result' = IF st.ret THEN st.value ELSE result
           /\ pc' = IF st.ret THEN "done" ELSE "loop"
    /\ Frame /\ UNCHANGED <<a, b, c, d, lcm, cur, k, fault, passes>>

\* lines 128-141: one pass of `loop`; it returns when the sweep meets a zero.
GcdnSweep ==
    /\ fn = "gcdn" /\ pc = "loop"
    /\ \E p \in {GcdnPass(signed, vec, s)} :
           /\ vec' = p.vec
           /\ result' = IF p.ret THEN p.value ELSE result
           /\ fault' = Fault(fault, p.ret /\ p.ovf, "overflow")
           /\ pc' = IF p.ret THEN "done" ELSE "loop"
    /\ passes' = passes + 1
    /\ Frame /\ UNCHANGED <<a, b, c, d, s, lcm, cur, k>>

\* ---- lcm2, and lcm3 / lcm4 folding it
Lcms == {"lcm2", "lcm3", "lcm4"}

\* lines 150-154 of the lcm2 call on cur
Lcm2Enter ==
    /\ fn \in Lcms /\ pc = "call"
    /\ \E st \in {Lcm2Start(signed, cur[1], cur[2])} :
           /\ a' = st.a /\ b' = st.b /\ s' = st.s /\ lcm' = st.lcm
           /\ fault' = Fault(fault, st.ovf, "overflow")
    /\ pc' = "while_b"
    /\ Frame /\ UNCHANGED <<c, d, vec, cur, k, result, passes>>

\* lines 155-157
Lcm2Loop ==
    /\ fn \in Lcms /\ pc = "while_b" /\ b > 1
    /\ \E n \in {Lcm2Pass(a, b)} : a' = n[1] /\ b' = n[2]
    /\ fault' = Fault(fault, SubOvf(a, b), "overflow")
    /\ passes' = passes + 1
    /\ Frame /\ UNCHANGED <<pc, c, d, s, lcm, vec, cur, k, result>>

\* lines 158-162: lcm2 returns; the outermost call's value is the result.
Lcm2Exit ==
    /\ fn \in Lcms /\ pc = "while_b" /\ ~(b > 1)
    /\ result' = Lcm2Value(a, b, lcm)
    /\ fault' = Fault(fault, Lcm2DivZero(a, b), "div_by_zero")
    /\ pc' = IF k = Len(args) THEN "done" ELSE "fold"
    /\ Frame /\ UNCHANGED <<a, b, c, d, s, lcm, vec, cur, k, passes>>

\* line 172: lcm2(iabs(lcm2(a, b)), c)
Lcm3Fold ==
    /\ fn = "lcm3" /\ pc = "fold"
    /\ cur' = <<iabs(signed, result), args[k + 1]>>
    /\ k' = k + 1
    /\ pc' = "call"
    /\ Frame /\ UNCHANGED <<a, b, c, d, s, lcm, vec, result, fault, passes>>

\* line 182: lcm2(iabs(lcm2(iabs(lcm2(a, b)), c)), d)
Lcm4Fold ==
    /\ fn = "lcm4" /\ pc = "fold"
    /\ cur' = <<iabs(signed, result), args[k + 1]>>
    /\ k' = k + 1
    /\ pc' = "call"
    /\ Frame /\ UNCHANGED <<a, b, c, d, s, lcm, vec, result, fault, passes>>

\* ---- expot, called on its own
ExpotCall ==
    /\ fn = "expot" /\ pc = "call"
    /\ result' = expot(args[1])
    /\ pc' = "done"
    /\ Frame /\ UNCHANGED <<a, b, c, d, s, lcm, vec, cur, k, fault, passes>>

Next ==
    \/ Gcd2Enter \/ Gcd2Loop \/ Gcd2Exit
    \/ Gcd3Enter \/ Gcd3LoopC \/ Gcd3PinB \/ Gcd3LoopB \/ Gcd3Exit
    \/ Gcd4Enter \/ Gcd4LoopD \/ Gcd4PinC \/ Gcd4LoopC \/ Gcd4PinB \/ Gcd4LoopB \/ Gcd4Exit
    \/ GcdnEnter \/ GcdnSweep
    \/ Lcm2Enter \/ Lcm2Loop \/ Lcm2Exit \/ Lcm3Fold \/ Lcm4Fold
    \/ ExpotCall

Spec == Init /\ [][Next]_vars

\* A call keeps running until it returns: the program is sequential.
FairSpec == Spec /\ WF_vars(Next)

\* ------------------------------------------------------------ reference
\* The mathematics the claims compare the code with.
Mag(x) == IF x < 0 THEN 0 - x ELSE x

Divides(n, x) == IF n = 0 THEN x = 0 ELSE x % n = 0

RECURSIVE MathGcd(_, _)
MathGcd(x, y) == IF y = 0 THEN x ELSE MathGcd(y, x % y)

MathLcm(x, y) == IF x = 0 \/ y = 0 THEN 0 ELSE (x * y) \div MathGcd(x, y)

RECURSIVE SeqGcd(_)
SeqGcd(v) == IF v = <<>> THEN 0 ELSE MathGcd(Mag(Head(v)), SeqGcd(Tail(v)))

RECURSIVE SeqLcm(_)
SeqLcm(v) == IF v = <<>> THEN 1 ELSE MathLcm(Mag(Head(v)), SeqLcm(Tail(v)))

AllZero(v) == \A i \in 1..Len(v) : v[i] = 0

Remove(v, p) == [i \in 1..(Len(v) - 1) |-> IF i < p THEN v[i] ELSE v[i + 1]]

OddOrZero(x) == x = 0 \/ x % 2 = 1

RECURSIVE Sum(_)
Sum(v) == IF v = <<>> THEN 0 ELSE Head(v) + Sum(Tail(v))

\* i8::wrapping_neg
wrapping_neg(x) == AsSigned(0 - x)

Done == pc = "done"

\* ------------------------------------------------------------ claims
\* C1: for every slice of length >= 1, gcdn returns the greatest common divisor
\* of the absolute values of its elements (also when the sweep meets a zero).
C1_GcdnIsGcd ==
    (Done /\ fn = "gcdn" /\ Len(args) >= 1) => result = SeqGcd(args)

\* C2: the result g of gcd2, gcd3 and gcd4 divides the absolute value of every
\* argument, every common divisor divides g, and no larger integer is one
\* unless all arguments are zero.
C2_FixedArityGcd ==
    (Done /\ fn \in {"gcd2", "gcd3", "gcd4"}) =>
        /\ \A i \in 1..Len(args) : Divides(result, Mag(args[i]))
        /\ \A n \in 1..Modulus :
              (\A i \in 1..Len(args) : Divides(n, Mag(args[i]))) =>
                  /\ Divides(n, result)
                  /\ ~AllZero(args) => n <= result

C2_Witness ==
    Done /\ fn = "gcd3" /\ signed /\ args = <<0, 0 - 6, 4>> /\ result = 2

\* C3: a 0 inserted at any position of a slice that has a nonzero element does
\* not change what gcdn returns.
C3_ZeroIsNeutral ==
    (Done /\ fn = "gcdn") =>
        \A p \in 1..Len(args) :
            (args[p] = 0 /\ ~AllZero(args)) => result = gcdn(signed, Remove(args, p))

\* C4: with every argument 0, each gcd and lcm function returns 0, with no
\* arithmetic fault (no overflow from the scale MaxValue, no division by zero).
C4_AllZero ==
    (Done /\ fn # "expot" /\ Len(args) >= 1 /\ AllZero(args)) =>
        result = 0 /\ fault = "none"

C4_Witness ==
    Done /\ fn = "gcdn" /\ args = <<0, 0, 0>> /\ s = MaxValue /\ result = 0

\* C5: for nonzero a, b whose product of absolute values fits u8,
\* lcm2(a, b) * gcd2(a, b) = |a| * |b|, and lcm2's product does not overflow.
C5_LcmGcdProduct ==
    (Done /\ fn = "lcm2" /\ args[1] # 0 /\ args[2] # 0
          /\ Mag(args[1]) * Mag(args[2]) <= MaxValue) =>
        /\ result * gcd2(signed, args[1], args[2]) = Mag(args[1]) * Mag(args[2])
        /\ fault = "none"

C5_Witness ==
    Done /\ fn = "lcm2" /\ signed /\ args = <<0 - 6, 8>> /\ result = 24

\* C6: every call returns: each loop pass that does not return strictly
\* decreases the sum of the working values, which never goes below zero.
Measure(p, wa, wb, wc, wd, wv) ==
    CASE p = "while_b" -> wa + wb
      [] p = "while_c" -> wa + wb + wc
      [] p = "while_d" -> wa + wb + wc + wd
      [] p = "loop" -> Sum(wv)
      [] OTHER -> 0

C6_PassDecreases ==
    (passes' = passes + 1 /\ pc' # "done") =>
        /\ pc' = pc
        /\ 0 <= Measure(pc', a', b', c', d', vec')
        /\ Measure(pc', a', b', c', d', vec') < Measure(pc, a, b, c, d, vec)

C6_Terminates == [][C6_PassDecreases]_vars /\ <>Done

C6_Witness == Done /\ fn = "gcdn" /\ Len(args) = 3 /\ passes >= 3

\* C7: for a, b of i8, the minimum included, gcd2 gives the same value for
\* (a, b), (-a, b), (a, -b) and (-a, -b), negation wrapping; the absolute
\* value of the minimum is 2^(W-1) and nothing overflows.
C7_SignIndependent ==
    (Done /\ fn = "gcd2" /\ signed) =>
        /\ result = gcd2(TRUE, wrapping_neg(args[1]), args[2])
        /\ result = gcd2(TRUE, args[1], wrapping_neg(args[2]))
        /\ result = gcd2(TRUE, wrapping_neg(args[1]), wrapping_neg(args[2]))
        /\ uabs(TRUE, MinT) = Pow2(W - 1)
        /\ fault = "none"

C7_Witness ==
    Done /\ fn = "gcd2" /\ signed /\ args = <<MinT, 0 - 6>> /\ result = 2

\* C8: for signed and unsigned T alike, when the least common multiple fits u8
\* and no product overflows, lcm3(a, b, c) is lcm2 of the value lcm2(a, b) and
\* c, lcm4(a, b, c, d) is lcm2 of the value lcm2(lcm2(a, b), c) and d (folding
\* through iabs keeps the magnitude), and both are the least common multiple
\* of all the arguments.
C8_Fold3(sg, x, y, z) == lcm2(FALSE, lcm2(sg, x, y), uabs(sg, z))

C8_FoldIsLcm ==
    (Done /\ fn \in {"lcm3", "lcm4"} /\ fault = "none" /\ SeqLcm(args) <= MaxValue) =>
        /\ result = SeqLcm(args)
        /\ fn = "lcm3" => result = C8_Fold3(signed, args[1], args[2], args[3])
        /\ fn = "lcm4" =>
               result = lcm2(FALSE, C8_Fold3(signed, args[1], args[2], args[3]),
                             uabs(signed, args[4]))

\* The same for u8 alone, where iabs changes nothing.
C8_FoldIsLcmUnsigned == signed \/ C8_FoldIsLcm

\* C9: expot(x) is the largest power of two dividing x, and expot(0) = 0.
C9_ExpotLargestPow2 ==
    (Done /\ fn = "expot") =>
        IF args[1] = 0 THEN result = 0
        ELSE /\ \E e \in 0..(W - 1) : result = Pow2(e)
             /\ Divides(result, args[1])
             /\ ~Divides(2 * result, args[1])

\* C10: in gcd2, gcd3 and gcd4 the working values at every loop head are in
\* descending order and odd or zero; no subtraction underflows and no final
\* product (gcdn's included) overflows.
C10_NoOverflow ==
    (fn \in {"gcd2", "gcd3", "gcd4", "gcdn"}) =>
        /\ fault = "none"
        /\ result <= MaxValue
        /\ (pc = "while_b" => a >= b /\ OddOrZero(a) /\ OddOrZero(b))
        /\ (pc = "while_c" =>
               a >= b /\ b >= c /\ OddOrZero(a) /\ OddOrZero(b) /\ OddOrZero(c))
        /\ (pc = "while_d" =>
               /\ a >= b /\ b >= c /\ c >= d
               /\ OddOrZero(a) /\ OddOrZero(b) /\ OddOrZero(c) /\ OddOrZero(d))

C10_Witness ==
    Done /\ fn = "gcd4" /\ signed /\ passes >= 2
         /\ (\E i \in 1..4 : args[i] = 0) /\ (\E i \in 1..4 : args[i] = MaxT)

====
